---- MODULE Spec2Model ----
(***************************************************************************)
(* lakery: a tag-based validator for Go structs.                           *)
(*                                                                         *)
(* A Go string is modelled as a sequence of tokens.  The delimiter tokens  *)
(* are the single characters the code looks at ("{", "}", ",", "=", ":",   *)
(* " ", "-", "+", the digits); a word token ("each", "min", ...) stands    *)
(* for that run of letters, which no operation of the code splits.         *)
(***************************************************************************)
EXTENDS Integers, Sequences, FiniteSets, TLC

VARIABLES
    validators,              \* Validator.validators: name -> callback
    CurrentErrorFormatFunc,  \* the process-wide error formatter
    call,                    \* the Validate call in flight (or idle)
    registered,              \* history: the RegisterTag calls made so far
    listed,                  \* the last return value of ListValidators
    tag,                     \* grammar harness: the annotation string
    parsed,                  \* grammar harness: what the parsers returned
    arg,                     \* builtin harness: the *Value handed to a builtin
    outcome,                 \* builtin harness: what the builtin returned
    tv,                      \* the static analyzer: the TagValidator and its run
    pkg,                     \* the static analyzer: the package it was run on
    inflight                 \* concurrent callers: the Validate call of each goroutine

vars == <<validators, CurrentErrorFormatFunc, call, registered, listed, tag, parsed, arg, outcome,
          tv, pkg, inflight>>

----------------------------------------------------------------------------
(* Strings *)

\* All strings over an alphabet up to a length.
Strings(alphabet, n) == UNION {[1..k -> alphabet] : k \in 0..n}

\* s[from:] with a 1-based first index.
From(s, from) == SubSeq(s, from, Len(s))

RECURSIVE TrimLeft(_)
TrimLeft(s) ==
    IF s # <<>> /\ Head(s) = " " THEN TrimLeft(Tail(s)) ELSE s

RECURSIVE TrimRight(_)
TrimRight(s) ==
    IF s # <<>> /\ s[Len(s)] = " " THEN TrimRight(SubSeq(s, 1, Len(s) - 1)) ELSE s

\* strings.TrimSpace
TrimSpace(s) == TrimRight(TrimLeft(s))

\* strings.HasPrefix
HasPrefix(s, p) == Len(s) >= Len(p) /\ SubSeq(s, 1, Len(p)) = p

\* strings.HasSuffix
HasSuffix(s, p) == Len(s) >= Len(p) /\ SubSeq(s, Len(s) - Len(p) + 1, Len(s)) = p

\* The index of the first "=" of s, 0 when there is none.
RECURSIVE IndexEq(_, _)
IndexEq(s, i) ==
    IF i > Len(s) THEN 0
    ELSE IF s[i] = "=" THEN i
    ELSE IndexEq(s, i + 1)

\* strings.SplitN(s, "=", 2): one or two pieces.
SplitN2(s) ==
    LET p == IndexEq(s, 1)
    IN  IF p = 0 THEN <<s>> ELSE <<SubSeq(s, 1, p - 1), From(s, p + 1)>>

\* strings.Join(parts, ",")
RECURSIVE JoinComma(_)
JoinComma(parts) ==
    IF parts = <<>> THEN <<>>
    ELSE IF Len(parts) = 1 THEN parts[1]
    ELSE parts[1] \o <<",">> \o JoinComma(Tail(parts))

----------------------------------------------------------------------------
(* The grammar: splitting at top-level commas *)

NoError == ""
UnopenedBraces == "unopened braces"
UnclosedBraces == "unclosed braces"

\* A plausible slip in the scan: the depth test of the comma case is dropped,
\* so that every comma separates.
RECURSIVE SplitScanAnyDepth(_, _, _, _, _)
SplitScanAnyDepth(s, i, depth, last, parts) ==
    IF i > Len(s)
    THEN [depth |-> depth, parts |-> Append(parts, From(s, last))]
    ELSE IF s[i] = "{" THEN SplitScanAnyDepth(s, i + 1, depth + 1, last, parts)
    ELSE IF s[i] = "}" THEN SplitScanAnyDepth(s, i + 1, depth - 1, last, parts)
    ELSE IF s[i] = ","
         THEN SplitScanAnyDepth(s, i + 1, depth, i + 1, Append(parts, SubSeq(s, last, i - 1)))
    ELSE SplitScanAnyDepth(s, i + 1, depth, last, parts)

\* The scan of splitTopLevelByComma: the loop over the runes of s, then the
\* append of the last part.  last is the 1-based index of the part's start.
RECURSIVE SplitScan(_, _, _, _, _)
SplitScan(s, i, depth, last, parts) ==
    IF i > Len(s)
    THEN [depth |-> depth, parts |-> Append(parts, From(s, last))]
    ELSE IF s[i] = "{" THEN SplitScan(s, i + 1, depth + 1, last, parts)
    ELSE IF s[i] = "}" THEN SplitScan(s, i + 1, depth - 1, last, parts)
    ELSE IF s[i] = "," /\ depth = 0
         THEN SplitScan(s, i + 1, depth, i + 1, Append(parts, SubSeq(s, last, i - 1)))
    ELSE SplitScan(s, i + 1, depth, last, parts)

\* A plausible slip: only a depth below zero is reported.
splitNoUnclosedCheck(s) ==
    LET r == SplitScan(s, 1, 0, 1, <<>>)
    IN  IF r.depth < 0 THEN [err |-> UnopenedBraces, parts |-> <<>>]
        ELSE [err |-> NoError, parts |-> r.parts]

\* splitTopLevelByComma of the runtime package: (parts, error).
splitTopLevelByComma(s) ==
    LET r == SplitScan(s, 1, 0, 1, <<>>)
    IN  IF r.depth < 0 THEN [err |-> UnopenedBraces, parts |-> <<>>]
        ELSE IF r.depth > 0 THEN [err |-> UnclosedBraces, parts |-> <<>>]
        ELSE [err |-> NoError, parts |-> r.parts]

----------------------------------------------------------------------------
(* Values: what reflect shows of a Go value *)

\* The zero reflect.Value: ValueOf(nil), or Elem of a nil pointer.
Invalid == [kind |-> "invalid"]

Str(n) == [kind |-> "string", len |-> n]
IntV(n) == [kind |-> "int", n |-> n]
\* A uint64 x is kept as an offset: x = off when not big, x = 2^64 - off when big.
UintV(big, off) == [kind |-> "uint", big |-> big, off |-> off]
\* A float64 is kept in halves: its value is h / 2.
FloatV(h) == [kind |-> "float", h |-> h]
BoolV(b) == [kind |-> "bool", b |-> b]
Slice(elems) == [kind |-> "slice", isnil |-> FALSE, elems |-> elems]
NilSlice == [kind |-> "slice", isnil |-> TRUE, elems |-> <<>>]
Array(elems) == [kind |-> "array", elems |-> elems]
MapV(n) == [kind |-> "map", isnil |-> FALSE, len |-> n]
NilMap == [kind |-> "map", isnil |-> TRUE, len |-> 0]
PtrTo(v) == [kind |-> "ptr", isnil |-> FALSE, elem |-> v]
NilPtr == [kind |-> "ptr", isnil |-> TRUE, elem |-> Invalid]
\* A struct value: its fields in declaration order, each with the lakery tag
\* of its declaration and its current value.
Struct(fields) == [kind |-> "struct", fields |-> fields]
Field(name, tg, v) == [name |-> name, tag |-> tg, val |-> v]

\* reflect.Value.Elem of a pointer.
Elem(rv) == IF rv.isnil THEN Invalid ELSE rv.elem

\* reflect.Value.Len of a string, array, slice or map.
LenOf(rv) ==
    IF rv.kind \in {"slice", "array"} THEN Len(rv.elems) ELSE rv.len

\* reflect.Value.IsZero.
RECURSIVE IsZero(_)
IsZero(rv) ==
    CASE rv.kind = "string" -> rv.len = 0
      [] rv.kind = "int" -> rv.n = 0
      [] rv.kind = "uint" -> ~rv.big /\ rv.off = 0
      [] rv.kind = "float" -> rv.h = 0
      [] rv.kind = "bool" -> ~rv.b
      [] rv.kind \in {"slice", "map", "ptr"} -> rv.isnil
      [] rv.kind = "array" -> \A j \in DOMAIN rv.elems : IsZero(rv.elems[j])
      [] rv.kind = "struct" -> \A j \in DOMAIN rv.fields : IsZero(rv.fields[j].val)

\* uint64(n) of an int n: a negative n wraps to 2^64 + n.
ToUint64(n) == IF n < 0 THEN UintV(TRUE, -n) ELSE UintV(FALSE, n)

\* a < b on uint64.
UintLess(a, b) ==
    IF a.big = b.big
    THEN (IF a.big THEN a.off > b.off ELSE a.off < b.off)
    ELSE b.big

----------------------------------------------------------------------------
(* Value, the argument of a validator callback *)

\* Value{val, name, param}; the param of an invocation without "=" is "".
ValueOf(v, name, param) == [val |-> v, name |-> name, param |-> param]

Digits == {"0", "1", "2", "3", "4", "5", "6", "7", "8", "9"}

DigitVal(d) ==
    CASE d = "0" -> 0 [] d = "1" -> 1 [] d = "2" -> 2 [] d = "3" -> 3 [] d = "4" -> 4
      [] d = "5" -> 5 [] d = "6" -> 6 [] d = "7" -> 7 [] d = "8" -> 8 [] d = "9" -> 9

RECURSIVE DecimalOf(_, _)
DecimalOf(ds, acc) ==
    IF ds = <<>> THEN acc ELSE DecimalOf(Tail(ds), 10 * acc + DigitVal(Head(ds)))

\* strconv.Atoi: an optional sign, then one or more decimal digits.
Atoi(s) ==
    LET signed == s # <<>> /\ Head(s) \in {"-", "+"}
        ds == IF signed THEN Tail(s) ELSE s
    IN  IF ds = <<>> \/ \E j \in DOMAIN ds : ds[j] \notin Digits
        THEN [ok |-> FALSE, n |-> 0]
        ELSE [ok |-> TRUE,
              n |-> IF signed /\ Head(s) = "-" THEN -DecimalOf(ds, 0) ELSE DecimalOf(ds, 0)]

\* What a callback does: return nil, return an error, or panic.
Ok == [kind |-> "ok", msg |-> "", n |-> 0]
Err(msg, n) == [kind |-> "err", msg |-> msg, n |-> n]
Panic == [kind |-> "panic", msg |-> "requested param value is not set", n |-> 0]

\* Value.Param panics when the param is "".
ParamPanics(val) == val.param = <<>>

----------------------------------------------------------------------------
(* The built-in validators *)

minTag == <<"min">>
maxTag == <<"max">>
eachTag == <<"each">>
diveTag == <<"dive">>
requiredTag == <<"required">>

\* The switch of builtinMin over the kind of the (dereferenced) value.
MinByKind(rv, min) ==
    CASE rv.kind \in {"string", "array", "slice", "map"} ->
            IF LenOf(rv) < min THEN Err("should have length at least", min) ELSE Ok
      [] rv.kind = "int" ->
            IF rv.n < min THEN Err("should be >=", min) ELSE Ok
      [] rv.kind = "uint" ->
            IF UintLess(rv, ToUint64(min)) THEN Err("should be >=", min) ELSE Ok
      [] rv.kind = "float" ->
            IF rv.h < 2 * min THEN Err("should be >=", min) ELSE Ok
      [] OTHER -> Err("min is not applicable to type", 0)

builtinMin(val) ==
    IF ParamPanics(val) THEN Panic
    ELSE LET a == Atoi(val.param)
             rv == val.val
         IN  IF ~a.ok THEN Err("min expects integer param", 0)
             ELSE IF rv.kind = "ptr"
                  THEN IF rv.isnil
                       THEN (IF a.n > 0 THEN Err("should have length at least", a.n) ELSE Ok)
                       ELSE MinByKind(Elem(rv), a.n)
                  ELSE MinByKind(rv, a.n)

\* The switch of builtinMax over the kind of the (dereferenced) value.
MaxByKind(rv, max) ==
    CASE rv.kind \in {"string", "array", "slice", "map"} ->
            IF LenOf(rv) > max THEN Err("should have length at most", max) ELSE Ok
      [] rv.kind = "int" ->
            IF rv.n > max THEN Err("should be <=", max) ELSE Ok
      [] rv.kind = "uint" ->
            IF UintLess(ToUint64(max), rv) THEN Err("should be <=", max) ELSE Ok
      [] rv.kind = "float" ->
            IF rv.h > 2 * max THEN Err("should be <=", max) ELSE Ok
      [] OTHER -> Err("max is not applicable to type", 0)

builtinMax(val) ==
    IF ParamPanics(val) THEN Panic
    ELSE LET a == Atoi(val.param)
             rv == val.val
         IN  IF ~a.ok THEN Err("max expects integer param", 0)
             ELSE IF rv.kind = "ptr"
                  THEN IF rv.isnil THEN Ok ELSE MaxByKind(Elem(rv), a.n)
                  ELSE MaxByKind(rv, a.n)

\* A plausible slip: the pointer itself is tested, not what it points to.
builtinRequiredNoDeref(val) ==
    IF IsZero(val.val) THEN Err("is required", 0) ELSE Ok

builtinRequired(val) ==
    LET rv == val.val
    IN  IF rv.kind = "ptr"
        THEN IF rv.isnil THEN Err("is required", 0)
             ELSE IF IsZero(Elem(rv)) THEN Err("is required", 0) ELSE Ok
        ELSE IF IsZero(rv) THEN Err("is required", 0) ELSE Ok

\* Callbacks a caller registers: one that rejects every value, one that
\* accepts every value.
rejectAll(val) == Err("rejected", 0)
acceptAll(val) == Ok

CustomCallbacks == {"rejectAll", "acceptAll"}

\* Calling a TagValidationFunc.
Invoke(fn, val) ==
    CASE fn = "builtinMin" -> builtinMin(val)
      [] fn = "builtinMax" -> builtinMax(val)
      [] fn = "builtinRequired" -> builtinRequired(val)
      [] fn = "rejectAll" -> rejectAll(val)
      [] fn = "acceptAll" -> acceptAll(val)

----------------------------------------------------------------------------
(* The registry and the error formatter *)

\* make(map[string]TagValidationFunc)
EmptyRegistry == [n \in {} |-> "builtinMin"]

\* A plausible slip: a name already held keeps its first callback.
RegisterKeepFirst(vs, name, fn) ==
    [n \in DOMAIN vs \cup {name} |-> IF n \in DOMAIN vs THEN vs[n] ELSE fn]

\* v.validators[tag] = fn
RegisterTagMap(vs, name, fn) ==
    [n \in DOMAIN vs \cup {name} |-> IF n = name THEN fn ELSE vs[n]]

registerBuiltins(vs) ==
    RegisterTagMap(RegisterTagMap(RegisterTagMap(vs, minTag, "builtinMin"),
                                  maxTag, "builtinMax"),
                   requiredTag, "builtinRequired")

NewValidator == registerBuiltins(EmptyRegistry)

ErrorFormatFuncs == {"defaultErrorFormat", "customErrorFormat"}

\* CurrentErrorFormatFunc(fieldType, fieldValue, err): the error Validate
\* returns, made by formatter f from the field, the value and the raw error.
FormatError(f, field, value, err) ==
    [kind |-> "error", formatter |-> f, field |-> field.name, value |-> value, err |-> err]

\* errors.New(msg), returned without the formatter.
PlainError(msg) ==
    [kind |-> "error", formatter |-> "", field |-> 0, value |-> Invalid, err |-> Err(msg, 0)]

Running == [kind |-> "running"]
ReturnNil == [kind |-> "nil"]
Panicked == [kind |-> "panic"]

----------------------------------------------------------------------------
(* Validate, step by step *)

\* No Validate call is in flight.
Idle ==
    [pc |-> "idle", s |-> Invalid, rv |-> Invalid, i |-> 0, tags |-> <<>>, t |-> 0,
     inner |-> <<>>, e |-> 0, k |-> 0, ret |-> Running, trace |-> <<>>]

\* The call returns ret (or panics).
Done(c, ret) == [c EXCEPT !.pc = "done", !.ret = ret]

\* A plausible slip: every level of pointer is followed, not one.
RECURSIVE DerefAll(_)
DerefAll(rv) == IF rv.kind = "ptr" THEN DerefAll(Elem(rv)) ELSE rv

ValidateEntryDerefAll(s) ==
    LET rv == DerefAll(s)
        c == [Idle EXCEPT !.s = s]
    IN  IF rv.kind # "struct"
        THEN Done(c, PlainError("can only validate structs"))
        ELSE [c EXCEPT !.pc = "fields", !.rv = rv, !.i = 1]

\* Validate(s): the receiver is a constructed Validator; rv is ValueOf(s),
\* replaced by its Elem when it is a pointer; anything but a struct is refused.
ValidateEntry(s) ==
    LET rv == IF s.kind = "ptr" THEN Elem(s) ELSE s
        c == [Idle EXCEPT !.s = s]
    IN  IF rv.kind # "struct"
        THEN Done(c, PlainError("can only validate structs"))
        ELSE [c EXCEPT !.pc = "fields", !.rv = rv, !.i = 1]

\* One turn of the loop of validateStruct and the head of proceedTags: the
\* tag of field i is read and split at its top-level commas.
FieldStep(c, f) ==
    IF c.i > Len(c.rv.fields) THEN Done(c, ReturnNil)
    ELSE LET fld == c.rv.fields[c.i]
         IN  IF fld.tag = <<>> THEN [c EXCEPT !.i = c.i + 1]
             ELSE LET r == splitTopLevelByComma(fld.tag)
                  IN  IF r.err # NoError
                      THEN Done(c, FormatError(f, fld, fld.val, Err(r.err, 0)))
                      ELSE [c EXCEPT !.pc = "tags", !.tags = r.parts, !.t = 1]

\* A plausible slip: a name that is not registered is an error.
DispatchUnknownFails(vs, key, val) ==
    IF key \in DOMAIN vs
    THEN [fn |-> vs[key], res |-> Invoke(vs[key], val)]
    ELSE [fn |-> "", res |-> Err("unknown validator", 0)]

\* The lookup of a name and, when it is registered, the call of its callback.
Dispatch(vs, key, val) ==
    IF key \in DOMAIN vs
    THEN [fn |-> vs[key], res |-> Invoke(vs[key], val)]
    ELSE [fn |-> "", res |-> Ok]

\* What the trace keeps of a dispatch: where it happened (field, top-level
\* segment, element, inner segment; 0 where there is none), the name looked
\* up, the param, the callback called ("" when the name is not registered)
\* and what the callback did.
Dispatched(pos, key, val, d) ==
    [pos |-> pos, key |-> key, param |-> val.param, fn |-> d.fn, res |-> d.res]

\* A plausible slip: the error of a callback is noted and the loop goes on.
AfterDispatchGoOn(c, f, pos, key, val, d, fld, shown) ==
    LET c1 == [c EXCEPT !.trace = Append(c.trace, Dispatched(pos, key, val, d))]
    IN  CASE d.res.kind = "panic" -> Done(c1, Panicked)
          [] OTHER -> c1

\* A plausible slip: the formatter the package starts with is called, not
\* the current one.
AfterDispatchDefaultFormat(c, f, pos, key, val, d, fld, shown) ==
    LET c1 == [c EXCEPT !.trace = Append(c.trace, Dispatched(pos, key, val, d))]
    IN  CASE d.res.kind = "err" -> Done(c1, FormatError("defaultErrorFormat", fld, shown, d.res))
          [] d.res.kind = "panic" -> Done(c1, Panicked)
          [] OTHER -> c1

\* The call after a dispatch: the trace grows; an error is formatted and
\* returned and a panic ends the call.
AfterDispatch(c, f, pos, key, val, d, fld, shown) ==
    LET c1 == [c EXCEPT !.trace = Append(c.trace, Dispatched(pos, key, val, d))]
    IN  CASE d.res.kind = "err" -> Done(c1, FormatError(f, fld, shown, d.res))
          [] d.res.kind = "panic" -> Done(c1, Panicked)
          [] OTHER -> c1

\* inner with one outer pair of braces removed, when it has one.
StripBraces(inner) ==
    IF HasPrefix(inner, <<"{">>) /\ HasSuffix(inner, <<"}">>)
    THEN TrimSpace(SubSeq(inner, 2, Len(inner) - 1))
    ELSE inner

\* A plausible slip: the param of each is read before the kind of the field
\* is looked at.
EachEntryParamFirst(c, f, fld, val) ==
    IF ParamPanics(val) THEN Done(c, Panicked)
    ELSE IF fld.val.kind \notin {"slice", "array"}
    THEN Done(c, FormatError(f, fld, fld.val,
                   Err("each can be used only with slice or array", 0)))
    ELSE LET r == splitTopLevelByComma(StripBraces(TrimSpace(val.param)))
         IN  IF r.err # NoError
             THEN Done(c, FormatError(f, fld, fld.val, Err(r.err, 0)))
             ELSE [c EXCEPT !.pc = "each", !.inner = r.parts, !.e = 1, !.k = 1]

\* The head of the each branch of proceedTags: the kind of the field is
\* checked, the param is read (Value.Param), stripped of its braces and split.
EachEntry(c, f, fld, val) ==
    IF fld.val.kind \notin {"slice", "array"}
    THEN Done(c, FormatError(f, fld, fld.val,
                   Err("each can be used only with slice or array", 0)))
    ELSE IF ParamPanics(val) THEN Done(c, Panicked)
    ELSE LET r == splitTopLevelByComma(StripBraces(TrimSpace(val.param)))
         IN  IF r.err # NoError
             THEN Done(c, FormatError(f, fld, fld.val, Err(r.err, 0)))
             ELSE [c EXCEPT !.pc = "each", !.inner = r.parts, !.e = 1, !.k = 1]

\* One turn of the loop of proceedTags over the top-level segments: an empty
\* segment is skipped, each is entered, any other name is dispatched.  After
\* the last segment proceedTags returns nil and validateStruct goes on.
TagStep(c, vs, f) ==
    IF c.t > Len(c.tags)
    THEN [c EXCEPT !.pc = "fields", !.i = c.i + 1, !.tags = <<>>, !.t = 0]
    ELSE LET fld == c.rv.fields[c.i]
             tg == TrimSpace(c.tags[c.t])
             splitted == SplitN2(tg)
             tagKey == TrimSpace(splitted[1])
             withVal == Len(splitted) = 2
             val == ValueOf(fld.val, fld.name,
                            IF withVal THEN TrimSpace(splitted[2]) ELSE <<>>)
         IN  IF tg = <<>> THEN [c EXCEPT !.t = c.t + 1]
             ELSE IF tagKey = eachTag THEN EachEntry(c, f, fld, val)
             ELSE LET a == AfterDispatch(c, f, <<c.i, c.t, 0, 0>>, tagKey, val,
                                         Dispatch(vs, tagKey, val), fld, fld.val)
                  IN  IF a.pc = "done" THEN a ELSE [a EXCEPT !.t = c.t + 1]

\* One turn of the loops of the each-clause: over the elements and, for one
\* element, over the inner segments.  After the last element the loop over
\* the top-level segments goes on.
EachStep(c, vs, f) ==
    LET fld == c.rv.fields[c.i]
    IN  IF c.e > LenOf(fld.val)
        THEN [c EXCEPT !.pc = "tags", !.t = c.t + 1, !.inner = <<>>, !.e = 0, !.k = 0]
        ELSE IF c.k > Len(c.inner) THEN [c EXCEPT !.e = c.e + 1, !.k = 1]
        ELSE LET elem == fld.val.elems[c.e]
                 it == TrimSpace(c.inner[c.k])
                 kv == SplitN2(it)
                 innerKey == TrimSpace(kv[1])
                 eVal == ValueOf(elem, fld.name,
                                 IF Len(kv) = 2 THEN TrimSpace(kv[2]) ELSE <<>>)
             IN  IF it = <<>> THEN [c EXCEPT !.k = c.k + 1]
                 ELSE LET a == AfterDispatch(c, f, <<c.i, c.t, c.e, c.k>>, innerKey, eVal,
                                             Dispatch(vs, innerKey, eVal), fld, elem)
                      IN  IF a.pc = "done" THEN a ELSE [a EXCEPT !.k = c.k + 1]

\* One step of a call in flight.
Step(c, vs, f) ==
    CASE c.pc = "fields" -> FieldStep(c, f)
      [] c.pc = "tags" -> TagStep(c, vs, f)
      [] c.pc = "each" -> EachStep(c, vs, f)

RECURSIVE RunFrom(_, _, _)
RunFrom(c, vs, f) ==
    IF c.pc = "done" THEN c ELSE RunFrom(Step(c, vs, f), vs, f)

\* Validate(s) run alone, from its entry to its return, with the registry
\* vs and the formatter f: the call as it ends.
ValidateAlone(vs, f, s) == RunFrom(ValidateEntry(s), vs, f)

----------------------------------------------------------------------------
(* The inputs the model draws *)

\* The most fields a validated struct has.
MaxFields == 2
\* The most elements a slice field has.
MaxElems == 2
\* The longest string a field or an element holds.
MaxStrLen == 1

\* The lakery tags of the struct declarations.
StructTags ==
    { <<>>,                                                     \* no annotation
      <<"min", "=", "1">>,                                      \* min=1
      <<"unk", ",", " ", "min", " ", "=", " ", "1", ",">>,      \* unk, min = 1,
      <<"each", "=", "{", "min", "=", "1", "}">>,               \* each={min=1}
      <<"each", "=", "{", "cust", ",", "min", "=", "1", "}">>,  \* each={cust,min=1}
      <<"each", ":", "{", "}">>,                                \* each:{}
      <<"each", "=", "{">>,                                     \* each={
      <<"min", "=", "1", ",", "each", "=", "{", "min", "=", "1">>, \* min=1,each={min=1
      <<"each", "=", "}">>,                                     \* each=}
      <<"cust", ",", "min", "=", "1">>,                         \* cust,min=1
      <<"min">>,                                                \* min
      <<"each">>,                                               \* each
      <<"min", "=">>,                                           \* min=
      <<"max", "=", "x">>,                                      \* max=x
      <<"each", "=", "{", "max", "=", " ", "}">> }              \* each={max= }

Elements == {Str(n) : n \in 0..MaxStrLen}

Slices == {Slice(q) : q \in Strings(Elements, MaxElems)}

\* The values of the fields.
FieldValues == Elements \cup Slices \cup {IntV(1), MapV(1), PtrTo(Slice(<<Str(1)>>))}

\* The declarations and values of a struct's last field.
LastFields == StructTags \X FieldValues

\* The declarations and values of the fields before the last, one for each
\* way the code leaves a field: without annotation, with every dispatch
\* passed (top-level and each-clause), by a failing callback, by a brace error
\* and by each on a field that is no slice.
LeadFields ==
    { <<<<>>, Str(1)>>,
      <<<<"min", "=", "1">>, Str(1)>>,
      <<<<"each", "=", "{", "min", "=", "1", "}">>, Slice(<<Str(1), Str(1)>>)>>,
      <<<<"min", "=", "1">>, Str(0)>>,
      <<<<"each", "=", "{">>, Str(1)>>,
      <<<<"each", "=", "{", "min", "=", "1", "}">>, Str(1)>> }

\* The structs of n fields: field j is named j.
StructsOf(n) ==
    {Struct([j \in 1..n |-> Field(j, d[j][1], d[j][2])]) :
        d \in {x \in [1..n -> LeadFields \cup LastFields] :
                  \A j \in 1..(n - 1) : x[j] \in LeadFields}}

Structs == UNION {StructsOf(n) : n \in 0..MaxFields}

\* What Validate is called with: a struct, a pointer to a struct, and what
\* it refuses: the untyped nil, a nil pointer, a pointer to a pointer to a
\* struct, values that are no struct and a pointer to one.
ValidateInputs ==
    Structs
      \cup {PtrTo(s) : s \in StructsOf(1)}
      \cup {PtrTo(PtrTo(s)) : s \in StructsOf(1)}
      \cup {Invalid, NilPtr, IntV(1), Str(1), Slice(<<Str(1)>>), PtrTo(IntV(1))}

\* The names a caller registers callbacks under.
RegisteredNames == {minTag, <<"cust">>}

----------------------------------------------------------------------------
(* The program: one Validator, its callers one at a time *)

Init ==
    /\ validators = NewValidator
    /\ CurrentErrorFormatFunc = "defaultErrorFormat"
    /\ call = Idle
    /\ registered = EmptyRegistry
    /\ listed = <<>>
    /\ tag = <<>>
    /\ parsed = <<>>
    /\ arg = <<>>
    /\ outcome = <<>>
    /\ tv = <<>>
    /\ pkg = <<>>
    /\ inflight = <<>>

\* v.RegisterTag(name, fn)
RegisterTag(name, fn) ==
    /\ call.pc = "idle"
    /\ validators' = RegisterTagMap(validators, name, fn)
    /\ registered' = [n \in DOMAIN registered \cup {name} |->
                          IF n = name THEN fn ELSE registered[n]]
    /\ listed' = <<>>
    /\ UNCHANGED <<CurrentErrorFormatFunc, call, tag, parsed, arg, outcome, tv, pkg, inflight>>

\* The orders in which a range over the map may yield its keys.
KeyOrders(vs) ==
    {q \in [1..Cardinality(DOMAIN vs) -> DOMAIN vs] :
        \A a, b \in DOMAIN q : a # b => q[a] # q[b]}

\* v.ListValidators(): the keys, in the order the range over the map yields.
ListValidators ==
    /\ call.pc = "idle"
    /\ listed' \in KeyOrders(validators)
    /\ UNCHANGED <<validators, CurrentErrorFormatFunc, call, registered, tag, parsed, arg, outcome, tv, pkg, inflight>>

\* lakery.CurrentErrorFormatFunc = f
SetErrorFormatFunc(f) ==
    /\ call.pc = "idle"
    /\ CurrentErrorFormatFunc' = f
    /\ listed' = <<>>
    /\ UNCHANGED <<validators, call, registered, tag, parsed, arg, outcome, tv, pkg, inflight>>

\* v.Validate(s) is called.
Validate(s) ==
    /\ call.pc = "idle"
    /\ call' = ValidateEntry(s)
    /\ listed' = <<>>
    /\ UNCHANGED <<validators, CurrentErrorFormatFunc, registered, tag, parsed, arg, outcome, tv, pkg, inflight>>

\* validateStruct reaches the next field.
ValidateStruct ==
    /\ call.pc = "fields"
    /\ call' = FieldStep(call, CurrentErrorFormatFunc)
    /\ UNCHANGED <<validators, CurrentErrorFormatFunc, registered, listed, tag, parsed, arg, outcome, tv, pkg, inflight>>

\* proceedTags reaches the next top-level segment.
ProceedTags ==
    /\ call.pc = "tags"
    /\ call' = TagStep(call, validators, CurrentErrorFormatFunc)
    /\ UNCHANGED <<validators, CurrentErrorFormatFunc, registered, listed, tag, parsed, arg, outcome, tv, pkg, inflight>>

\* proceedTags reaches the next inner segment of an each-clause.
ProceedEach ==
    /\ call.pc = "each"
    /\ call' = EachStep(call, validators, CurrentErrorFormatFunc)
    /\ UNCHANGED <<validators, CurrentErrorFormatFunc, registered, listed, tag, parsed, arg, outcome, tv, pkg, inflight>>

\* The caller has the result; the next call may start.
Return ==
    /\ call.pc = "done"
    /\ call' = Idle
    /\ UNCHANGED <<validators, CurrentErrorFormatFunc, registered, listed, tag, parsed, arg, outcome, tv, pkg, inflight>>

Next ==
    \/ \E name \in RegisteredNames, fn \in CustomCallbacks : RegisterTag(name, fn)
    \/ ListValidators
    \/ \E f \in ErrorFormatFuncs : SetErrorFormatFunc(f)
    \/ \E s \in ValidateInputs : Validate(s)
    \/ ValidateStruct
    \/ ProceedTags
    \/ ProceedEach
    \/ Return

Spec == Init /\ [][Next]_vars

----------------------------------------------------------------------------
(* The static analyzer: the grammar of a tag, parsed again *)

\* The scan of TagValidator.splitTopLevelByComma.
RECURSIVE tvSplitScan(_, _, _, _, _)
tvSplitScan(s, i, depth, last, parts) ==
    IF i > Len(s)
    THEN [depth |-> depth, parts |-> Append(parts, From(s, last))]
    ELSE IF s[i] = "{" THEN tvSplitScan(s, i + 1, depth + 1, last, parts)
    ELSE IF s[i] = "}" THEN tvSplitScan(s, i + 1, depth - 1, last, parts)
    ELSE IF s[i] = "," /\ depth = 0
         THEN tvSplitScan(s, i + 1, depth, i + 1, Append(parts, SubSeq(s, last, i - 1)))
    ELSE tvSplitScan(s, i + 1, depth, last, parts)

\* TagValidator.splitTopLevelByComma: (parts, error).
tvSplitTopLevelByComma(s) ==
    LET r == tvSplitScan(s, 1, 0, 1, <<>>)
    IN  IF r.depth < 0 THEN [err |-> UnopenedBraces, parts |-> <<>>]
        ELSE IF r.depth > 0 THEN [err |-> UnclosedBraces, parts |-> <<>>]
        ELSE [err |-> NoError, parts |-> r.parts]

\* var builtinValidators
builtinValidators == {minTag, maxTag, requiredTag, eachTag, diveTag}

\* TagValidator.validatorExists
validatorExists(custom, name) == name \in builtinValidators \/ name \in custom

\* What the analysis of a tag (or of a part of it) yields: the messages of
\* the errors added, in order, and the invocations looked at, in order, each
\* with its name and param ("" when it has none).
Analysis(errs, invs) == [errs |-> errs, invs |-> invs]
Both(a, b) == Analysis(a.errs \o b.errs, a.invs \o b.invs)
Message(msg, about) == [msg |-> msg, about |-> about]
Invocation(name, param) == [name |-> name, param |-> param]

\* TagValidator.validateValidatorParam: the errors it adds.
validateValidatorParam(validator, param) ==
    IF validator \in {minTag, maxTag}
    THEN IF ~Atoi(param).ok
         THEN <<Message("expects integer parameter", validator)>> ELSE <<>>
    ELSE IF validator = requiredTag
    THEN IF param # <<>>
         THEN <<Message("required validator does not accept parameters", validator)>>
         ELSE <<>>
    ELSE <<>>

\* A plausible slip: every unknown name gets the same message.
unknownValidatorGeneric(key) == <<Message("unknown validator", key)>>

\* validateTagPart, for a name that is neither built in nor registered:
\* each:... is taken for a misspelt each=..., whose text after the colon is
\* suggested.
unknownValidator(key) ==
    IF HasPrefix(key, <<"each", ":">>)
    THEN <<Message("did you mean each=", From(key, 3))>>
    ELSE <<Message("unknown validator", key)>>

RECURSIVE validateTagPart(_, _)
RECURSIVE validateEachTag(_, _)
RECURSIVE validateParts(_, _)

\* A plausible slip: the loop over the parts ends with the first part that
\* has an error.
validatePartsFirstOnly(custom, parts) ==
    IF parts = <<>> THEN Analysis(<<>>, <<>>)
    ELSE LET part == TrimSpace(Head(parts))
         IN  IF part = <<>> THEN validateParts(custom, Tail(parts))
             ELSE LET a == validateTagPart(custom, part)
                  IN  IF a.errs # <<>> THEN a
                      ELSE Both(a, validateParts(custom, Tail(parts)))

\* The loop over the parts, of validateLakeryTag and of validateEachTag: a
\* part is trimmed, skipped when empty and handed to validateTagPart.
validateParts(custom, parts) ==
    IF parts = <<>> THEN Analysis(<<>>, <<>>)
    ELSE LET part == TrimSpace(Head(parts))
         IN  IF part = <<>> THEN validateParts(custom, Tail(parts))
             ELSE Both(validateTagPart(custom, part), validateParts(custom, Tail(parts)))

\* TagValidator.validateTagPart
validateTagPart(custom, part) ==
    LET kv == SplitN2(part)
        key == TrimSpace(kv[1])
        value == IF Len(kv) = 2 THEN TrimSpace(kv[2]) ELSE <<>>
    IN  IF key = <<>>
        THEN Analysis(<<Message("empty validator name", key)>>, <<Invocation(key, value)>>)
        ELSE IF key = eachTag
        THEN IF Len(kv) = 2 THEN validateEachTag(custom, value) ELSE Analysis(<<>>, <<>>)
        ELSE IF ~validatorExists(custom, key)
        THEN Analysis(unknownValidator(key), <<Invocation(key, value)>>)
        ELSE Analysis(IF Len(kv) = 2 THEN validateValidatorParam(key, value) ELSE <<>>,
                      <<Invocation(key, value)>>)

\* TagValidator.validateEachTag
validateEachTag(custom, value) ==
    LET stripped == IF HasPrefix(value, <<"{">>) /\ HasSuffix(value, <<"}">>)
                    THEN TrimSpace(SubSeq(value, 2, Len(value) - 1))
                    ELSE value
        r == tvSplitTopLevelByComma(stripped)
    IN  IF stripped = <<>> THEN Analysis(<<>>, <<>>)
        ELSE IF r.err # NoError
        THEN Analysis(<<Message("invalid syntax in each tag", r.err)>>, <<>>)
        ELSE validateParts(custom, r.parts)

\* TagValidator.validateLakeryTag
validateLakeryTag(custom, tg) ==
    LET r == tvSplitTopLevelByComma(tg)
    IN  IF r.err # NoError THEN Analysis(<<Message(r.err, tg)>>, <<>>)
        ELSE validateParts(custom, r.parts)

----------------------------------------------------------------------------
(* The grammar alone: one tag, parsed by each of its readers *)

\* The longest tag drawn symbol by symbol.
MaxTagLen == 5
\* The longest body of the each-clauses built one inside the other.
MaxInnerLen == 2

GrammarAlphabet == {"{", "}", ",", "=", "each", "x"}

\* each={t}
EachOf(t) == <<"each", "=", "{">> \o t \o <<"}">>

\* The tags: every short string over the alphabet, each-clauses inside
\* each-clauses, tags written with blanks, and the built-ins with and
\* without a param.
GrammarTags ==
    Strings(GrammarAlphabet, MaxTagLen)
      \cup {EachOf(EachOf(t)) : t \in Strings(GrammarAlphabet, MaxInnerLen)}
      \cup {EachOf(<<"x", ",">> \o EachOf(t)) : t \in Strings(GrammarAlphabet, MaxInnerLen)}
      \cup { <<" ", "x", " ", ",", " ", "x", " ", "=", " ", "x", " ">>,
             <<"each", " ", "=", " ", "{", " ", "x", " ", ",", "x", "=", "x", " ", "}">>,
             <<"x", ",", ",", " ", ",", "x">>,
             <<"min">>, <<"max">>, <<"required">>, <<"min", "=", "1">>,
             <<"each", "=", "{", "min", "}">>, <<"each", "=", "{", "max", "=", "1", "}">> }

\* A reader that has not parsed the tag yet.
NotRun == [err |-> "not run"]

\* What the runtime engine makes of the tag tg of a slice field with one
\* element: the brace error (or the panic) Validate ends with and the
\* invocations it looks up, in order, each with its name and param.
RuntimeGrammar(vs, f, tg) ==
    LET c == ValidateAlone(vs, f, Struct(<<Field(1, tg, Slice(<<Str(1)>>))>>))
    IN  [err |-> IF c.ret.kind = "panic" THEN "panic"
                 ELSE IF c.ret.kind = "error" THEN c.ret.err.msg
                 ELSE NoError,
         invs |-> [j \in 1..Len(c.trace) |-> Invocation(c.trace[j].key, c.trace[j].param)]]

\* What the static analyzer makes of the tag tg of a field: the brace error
\* it reports, the invocations it checks, in order, and how many
\* diagnostics it emits in all.
StaticGrammar(custom, tg) ==
    LET a == IF tg = <<>> THEN Analysis(<<>>, <<>>) ELSE validateLakeryTag(custom, tg)
        braces == SelectSeq(a.errs, LAMBDA m :
                      m.msg \in {UnopenedBraces, UnclosedBraces}
                        \/ m.msg = "invalid syntax in each tag")
    IN  [err |-> IF braces = <<>> THEN NoError
                 ELSE IF braces[1].msg = "invalid syntax in each tag" THEN braces[1].about
                 ELSE braces[1].msg,
         invs |-> a.invs,
         diagnostics |-> Len(a.errs)]

InitGrammar ==
    /\ validators = NewValidator
    /\ CurrentErrorFormatFunc = "defaultErrorFormat"
    /\ call = Idle
    /\ registered = EmptyRegistry
    /\ listed = <<>>
    /\ tag \in GrammarTags
    /\ parsed = [split |-> NotRun, runtime |-> NotRun, static |-> NotRun]
    /\ arg = <<>>
    /\ outcome = <<>>
    /\ tv = <<>>
    /\ pkg = <<>>
    /\ inflight = <<>>

\* splitTopLevelByComma(tag)
SplitTopLevel ==
    /\ parsed.split = NotRun
    /\ parsed' = [parsed EXCEPT !.split = splitTopLevelByComma(tag)]
    /\ UNCHANGED <<validators, CurrentErrorFormatFunc, call, registered, listed, tag, arg, outcome, tv, pkg, inflight>>

\* The runtime engine reads the tag.
RuntimeParse ==
    /\ parsed.runtime = NotRun
    /\ parsed' = [parsed EXCEPT !.runtime = RuntimeGrammar(validators, CurrentErrorFormatFunc, tag)]
    /\ UNCHANGED <<validators, CurrentErrorFormatFunc, call, registered, listed, tag, arg, outcome, tv, pkg, inflight>>

\* The static analyzer reads the tag.
StaticParse ==
    /\ parsed.static = NotRun
    /\ parsed' = [parsed EXCEPT !.static = StaticGrammar({}, tag)]
    /\ UNCHANGED <<validators, CurrentErrorFormatFunc, call, registered, listed, tag, arg, outcome, tv, pkg, inflight>>

NextGrammar ==
    \/ SplitTopLevel
    \/ RuntimeParse
    \/ StaticParse

SpecGrammar == InitGrammar /\ [][NextGrammar]_vars

----------------------------------------------------------------------------
(* The built-ins alone: min=N and max=N of one value *)

\* The longest string, slice, array or map, and the largest number.
MaxMeasure == 6

\* n elements, each a string.
ElemsOf(n) == [j \in 1..n |-> Str(1)]

\* The values that have a length or a number.
MeasuredValues ==
    {Str(n) : n \in 0..MaxMeasure}
      \cup {Slice(ElemsOf(n)) : n \in 0..MaxMeasure}
      \cup {Array(ElemsOf(n)) : n \in 0..MaxMeasure}
      \cup {MapV(n) : n \in 0..MaxMeasure}
      \cup {NilSlice, NilMap}
      \cup {IntV(n) : n \in -MaxMeasure..MaxMeasure}
      \cup {UintV(FALSE, n) : n \in 0..MaxMeasure}
      \cup {UintV(TRUE, 1)}

\* Zero values, values with a zero part and pointers to them, as required
\* tells them apart.
RequiredValues ==
    { BoolV(FALSE), Array(<<Str(0)>>), Array(<<Str(0), Str(1)>>),
      Struct(<<Field(1, <<>>, Str(0))>>),
      Struct(<<Field(1, <<>>, Str(0)), Field(2, <<>>, IntV(1))>>),
      PtrTo(Str(0)), PtrTo(IntV(0)), PtrTo(NilSlice), PtrTo(Slice(<<>>)), PtrTo(NilMap),
      PtrTo(NilPtr), PtrTo(PtrTo(Str(0))), PtrTo(Struct(<<>>)) }

\* The values the built-ins are called with.
BuiltinValues ==
    MeasuredValues
      \cup {PtrTo(v) : v \in {Str(1), Str(4), IntV(-1), UintV(FALSE, 5), BoolV(TRUE)}}
      \cup {PtrTo(PtrTo(Str(1))), NilPtr, BoolV(TRUE), Struct(<<>>)}
      \cup {FloatV(h) : h \in {-3, 0, 3, 5}}
      \cup RequiredValues

\* The params min and max are called with.
BuiltinParams ==
    { <<"-", "2">>, <<"-", "1">>, <<"0">>, <<"1">>, <<"2">>, <<"4">>, <<"+", "4">>,
      <<"1", "0">>, <<"x">> }

InitBuiltin ==
    /\ validators = NewValidator
    /\ CurrentErrorFormatFunc = "defaultErrorFormat"
    /\ call = Idle
    /\ registered = EmptyRegistry
    /\ listed = <<>>
    /\ tag = <<>>
    /\ parsed = <<>>
    /\ arg \in {ValueOf(v, 1, p) : v \in BuiltinValues, p \in BuiltinParams}
    /\ outcome = [min |-> NotRun, max |-> NotRun, required |-> NotRun]
    /\ tv = <<>>
    /\ pkg = <<>>
    /\ inflight = <<>>

\* The callback registered under min is called with the value.
CallMin ==
    /\ outcome.min = NotRun
    /\ outcome' = [outcome EXCEPT !.min = Invoke(validators[minTag], arg)]
    /\ UNCHANGED <<validators, CurrentErrorFormatFunc, call, registered, listed, tag, parsed, arg, tv, pkg, inflight>>

\* The callback registered under max is called with the value.
CallMax ==
    /\ outcome.max = NotRun
    /\ outcome' = [outcome EXCEPT !.max = Invoke(validators[maxTag], arg)]
    /\ UNCHANGED <<validators, CurrentErrorFormatFunc, call, registered, listed, tag, parsed, arg, tv, pkg, inflight>>

\* The callback registered under required is called with the value.
CallRequired ==
    /\ outcome.required = NotRun
    /\ outcome' = [outcome EXCEPT !.required = Invoke(validators[requiredTag], arg)]
    /\ UNCHANGED <<validators, CurrentErrorFormatFunc, call, registered, listed, tag, parsed, arg, tv, pkg, inflight>>

NextBuiltin ==
    \/ CallMin
    \/ CallMax
    \/ CallRequired

SpecBuiltin == InitBuiltin /\ [][NextBuiltin]_vars

----------------------------------------------------------------------------
(* The static analyzer: one run of ValidatePackage *)

\* The most fields a declared struct has.
MaxDeclFields == 2

\* s[1] \o s[2] \o ...
RECURSIVE Flatten(_)
Flatten(s) == IF s = <<>> THEN <<>> ELSE Head(s) \o Flatten(Tail(s))

\* A call x.RegisterTag(arg, ...): whether arg is a string literal, and the
\* name it gives.
RegisterCall(literal, name) == [literal |-> literal, name |-> name]
\* A field of a declared struct, with its lakery tag ("" when it has none).
DeclField(name, tg) == [name |-> name, tag |-> tg]
\* A file: its RegisterTag calls and its struct type declarations, in source
\* order.
File(calls, structs) == [calls |-> calls, structs |-> structs]
\* What parser.ParseDir returns: an error, or the files by name.
Package(files) == [err |-> FALSE, files |-> files]
ParseFailure == [err |-> TRUE, files |-> <<>>]

\* TagError: where (file, declaration, field), the tag and the message.
TagError(file, decl, field, tg, msg) ==
    [file |-> file, decl |-> decl, field |-> field, tag |-> tg, msg |-> msg]

\* NewTagValidator(), about to run; found and validated are the files the
\* first and the second pass have been through.
NewTagValidator ==
    [pc |-> "new", customValidators |-> {}, errors |-> <<>>,
     found |-> {}, validated |-> {}, ret |-> Running]

\* findCustomValidators(file): the names it adds.
findCustomValidators(file) ==
    {file.calls[j].name : j \in {h \in DOMAIN file.calls : file.calls[h].literal}}

\* TagValidator.validateStruct: the errors it adds for the struct st,
\* declaration decl of the file named fname.
tvValidateStruct(custom, fname, decl, st) ==
    Flatten([j \in DOMAIN st |->
                IF st[j].tag = <<>> THEN <<>>
                ELSE LET errs == validateLakeryTag(custom, st[j].tag).errs
                     IN  [k \in DOMAIN errs |->
                             TagError(fname, decl, st[j].name, st[j].tag, errs[k])]])

\* validateFile(file): the errors it adds.
validateFile(custom, fname, file) ==
    Flatten([d \in DOMAIN file.structs |-> tvValidateStruct(custom, fname, d, file.structs[d])])

\* A plausible slip: a file is validated as soon as it is met.
PassesOverlap(t, p) == TRUE

\* The second pass starts when the first is over.
FirstPassOver(t, p) == t.found = DOMAIN p.files

\* The error ValidatePackage returns when parsing fails.
ParseError == [kind |-> "error", msg |-> "failed to parse package", count |-> 0]
\* The error ValidatePackage returns for n tag errors.
FoundErrors(n) == [kind |-> "error", msg |-> "found lakery tag validation errors", count |-> n]

\* The tags of the declared fields.
AnalyzerTags ==
    { <<"min", "=", "1">>,                                       \* min=1
      <<"min">>,                                                 \* min
      <<"max", "=">>,                                            \* max=
      <<"min", "=", "x">>,                                       \* min=x
      <<"required">>,                                            \* required
      <<"required", "=">>,                                       \* required=
      <<"required", "=", "x">>,                                  \* required=x
      <<"each", "=", "{", "min", "=", "1", ",", "required", "}">>,   \* each={min=1,required}
      <<"each", "=", "{", "required", "=", "x", ",", "max", "}">>,   \* each={required=x,max}
      <<"each", ":", "{", "}">>,                                 \* each:{}
      <<"each", ":", "{", "min", "=", "1", "}">>,                \* each:{min=1}
      <<"each", "=", "{", "each", ":", "x", ",", "each", "=", "{", "unk", ",", "min", "=", "x", "}", "}">>,
                                                                 \* each={each:x,each={unk,min=x}}
      <<"unk">>,                                                 \* unk
      <<"cust">>,                                                \* cust
      <<"unk", ",", " ", "min", "=", "x", ",", "cust", "=", "1", ",">>,  \* unk, min=x,cust=1,
      <<"each", "=", "{">>,                                      \* each={
      <<"}", "{", ",", "unk">>,                                  \* }{,unk
      <<"=", "1">>,                                              \* =1
      <<"dive">>,                                                \* dive
      <<"each", "=", "{", "dive", ",", "unk", "}">> }            \* each={dive,unk}

\* The tags of the fields before the last of a struct: none, a tag without
\* error, a tag with one and a tag that needs a registered name.
LeadTags == { <<>>, <<"min", "=", "1">>, <<"min", "=", "x">>, <<"cust">> }

\* The declared structs of n fields: field j is named j.
DeclsOf(n) ==
    {[j \in 1..n |-> DeclField(j, d[j])] :
        d \in {x \in [1..n -> AnalyzerTags \cup LeadTags] :
                  \A j \in 1..(n - 1) : x[j] \in LeadTags}}

\* The RegisterTag calls of a file.
CallSeqs ==
    { <<>>, <<RegisterCall(TRUE, <<"cust">>)>>, <<RegisterCall(FALSE, <<"cust">>)>> }

\* The files named "a.go": with or without a call, with at most one struct.
FilesA ==
    {File(c, s) : c \in CallSeqs,
                  s \in {<<>>} \cup {<<st>> : st \in UNION {DeclsOf(n) : n \in 1..MaxDeclFields}}}

\* The files named "b.go": one that registers names and one that declares
\* two structs.
FilesB ==
    { File(<<RegisterCall(TRUE, <<"cust">>)>>, <<>>),
      File(<<RegisterCall(TRUE, <<"each", ":", "{", "}">>), RegisterCall(FALSE, <<"unk">>)>>,
           << <<DeclField(1, <<"cust">>)>> >>),
      File(<<>>, << <<DeclField(1, <<"unk">>), DeclField(2, <<"cust">>)>>,
                    <<DeclField(1, <<"min">>)>> >>) }

\* The packages ValidatePackage is run on.
Packages ==
    {ParseFailure, Package(<<>>)}
      \cup {Package([n \in {"a.go"} |-> fa]) : fa \in FilesA}
      \cup {Package([n \in {"a.go", "b.go"} |-> IF n = "a.go" THEN fa ELSE fb]) :
               fa \in FilesA, fb \in FilesB}

InitAnalyzer ==
    /\ validators = NewValidator
    /\ CurrentErrorFormatFunc = "defaultErrorFormat"
    /\ call = Idle
    /\ registered = EmptyRegistry
    /\ listed = <<>>
    /\ tag = <<>>
    /\ parsed = <<>>
    /\ arg = <<>>
    /\ outcome = <<>>
    /\ tv = NewTagValidator
    /\ pkg = Package(<<>>)
    /\ inflight = <<>>

\* tv.ValidatePackage(dir) is called and parses the directory.
ValidatePackage(p) ==
    /\ tv.pc = "new"
    /\ pkg' = p
    /\ tv' = IF p.err THEN [tv EXCEPT !.pc = "done", !.ret = ParseError]
             ELSE [tv EXCEPT !.pc = "scan"]
    /\ UNCHANGED <<validators, CurrentErrorFormatFunc, call, registered, listed, tag, parsed, arg, outcome, inflight>>

\* First pass: the range over pkg.Files yields the file named f.
FindCustomValidators(f) ==
    /\ tv.pc = "scan"
    /\ f \in DOMAIN pkg.files \ tv.found
    /\ tv' = [tv EXCEPT !.customValidators = @ \cup findCustomValidators(pkg.files[f]),
                        !.found = @ \cup {f}]
    /\ UNCHANGED <<validators, CurrentErrorFormatFunc, call, registered, listed, tag, parsed, arg, outcome, pkg, inflight>>

\* Second pass: the range over pkg.Files yields the file named f.
ValidateFile(f) ==
    /\ tv.pc = "scan"
    /\ FirstPassOver(tv, pkg)
    /\ f \in DOMAIN pkg.files \ tv.validated
    /\ tv' = [tv EXCEPT !.errors = @ \o validateFile(tv.customValidators, f, pkg.files[f]),
                        !.validated = @ \cup {f}]
    /\ UNCHANGED <<validators, CurrentErrorFormatFunc, call, registered, listed, tag, parsed, arg, outcome, pkg, inflight>>

\* Both passes are over: ValidatePackage returns.
Report ==
    /\ tv.pc = "scan"
    /\ tv.found = DOMAIN pkg.files
    /\ tv.validated = DOMAIN pkg.files
    /\ tv' = [tv EXCEPT !.pc = "done",
                        !.ret = IF Len(tv.errors) > 0 THEN FoundErrors(Len(tv.errors))
                                ELSE ReturnNil]
    /\ UNCHANGED <<validators, CurrentErrorFormatFunc, call, registered, listed, tag, parsed, arg, outcome, pkg, inflight>>

\* The analyzer is started again, with a TagValidator of its own.
Restart ==
    /\ tv.pc = "done"
    /\ tv' = NewTagValidator
    /\ pkg' = Package(<<>>)
    /\ UNCHANGED <<validators, CurrentErrorFormatFunc, call, registered, listed, tag, parsed, arg, outcome, inflight>>

NextAnalyzer ==
    \/ \E p \in Packages : ValidatePackage(p)
    \/ \E f \in {"a.go", "b.go"} : FindCustomValidators(f)
    \/ \E f \in {"a.go", "b.go"} : ValidateFile(f)
    \/ Report
    \/ Restart

SpecAnalyzer == InitAnalyzer /\ [][NextAnalyzer]_vars

----------------------------------------------------------------------------
(* The static analyzer: ValidatePackage called again on one TagValidator *)

\* The most errors a TagValidator holds when it is run once more.
MaxErrors == 2

\* A package of the one file a.go.
OneFile(file) == Package([n \in {"a.go"} |-> file])

\* The packages of the repeated runs: one that registers cust, one that uses
\* it, one with an unknown name, one without error, one of two files, the
\* empty one and one that does not parse.
ReusePackages ==
    { OneFile(File(<<RegisterCall(TRUE, <<"cust">>)>>, <<>>)),
      OneFile(File(<<>>, << <<DeclField(1, <<"cust">>)>> >>)),
      OneFile(File(<<>>, << <<DeclField(1, <<"unk">>)>> >>)),
      OneFile(File(<<>>, << <<DeclField(1, <<"min", "=", "1">>)>> >>)),
      Package([n \in {"a.go", "b.go"} |->
                  IF n = "a.go" THEN File(<<>>, << <<DeclField(1, <<"min", "=", "x">>)>> >>)
                  ELSE File(<<RegisterCall(TRUE, <<"cust">>)>>, << <<DeclField(1, <<"cust">>)>> >>)]),
      Package(<<>>),
      ParseFailure }

\* tv.ValidatePackage(dir) is called on a TagValidator that has run before:
\* tv.errors and tv.customValidators are as the earlier runs left them.
ValidatePackageAgain(p) ==
    /\ tv.pc = "done"
    /\ Len(tv.errors) < MaxErrors
    /\ pkg' = p
    /\ tv' = IF p.err THEN [tv EXCEPT !.ret = ParseError]
             ELSE [tv EXCEPT !.pc = "scan", !.found = {}, !.validated = {}, !.ret = Running]
    /\ UNCHANGED <<validators, CurrentErrorFormatFunc, call, registered, listed, tag, parsed, arg, outcome, inflight>>

NextAnalyzerReuse ==
    \/ \E p \in ReusePackages : ValidatePackage(p)
    \/ \E p \in ReusePackages : ValidatePackageAgain(p)
    \/ \E f \in {"a.go", "b.go"} : FindCustomValidators(f)
    \/ \E f \in {"a.go", "b.go"} : ValidateFile(f)
    \/ Report

SpecAnalyzerReuse == InitAnalyzer /\ [][NextAnalyzerReuse]_vars

----------------------------------------------------------------------------
(* One Validator shared by goroutines: Validate and RegisterTag interleaved *)

\* The goroutines that call Validate.
Procs == {1, 2}

\* The call c is between its entry and its return.
Overlaps(c) == c.pc \in {"fields", "tags", "each"}

\* The call of a goroutine: the call itself, the registry as it was when the
\* call began, and whether a RegisterTag has run since.
NoCall == [c |-> Idle, vs0 |-> EmptyRegistry, overlapped |-> FALSE]

\* What the goroutines validate: an invocation written twice, an
\* each-clause over two elements, two fields, and a value that is no struct.
ConcurrentInputs ==
    { Struct(<<Field(1, <<"min", "=", "1", ",", "min", "=", "1">>, Str(1))>>),
      Struct(<<Field(1, <<"each", "=", "{", "cust", "}">>, Slice(<<Str(1), Str(0)>>))>>),
      Struct(<<Field(1, <<"cust">>, Str(1)), Field(2, <<"min", "=", "1">>, Str(0))>>),
      IntV(1) }

\* The RegisterTag calls made while the goroutines validate.
ConcurrentRegistrations ==
    { <<minTag, "rejectAll">>, <<<<"cust">>, "rejectAll">>, <<<<"cust">>, "acceptAll">> }

InitConcurrent ==
    /\ validators = NewValidator
    /\ CurrentErrorFormatFunc = "defaultErrorFormat"
    /\ call = Idle
    /\ registered = EmptyRegistry
    /\ listed = <<>>
    /\ tag = <<>>
    /\ parsed = <<>>
    /\ arg = <<>>
    /\ outcome = <<>>
    /\ tv = <<>>
    /\ pkg = <<>>
    /\ inflight = [calls |-> [p \in Procs |-> NoCall], fatal |-> FALSE]

\* Goroutine p calls v.Validate(s).
GoValidate(p, s) ==
    /\ ~inflight.fatal
    /\ inflight.calls[p].c.pc = "idle"
    /\ inflight' = [inflight EXCEPT !.calls[p] =
                        [c |-> ValidateEntry(s), vs0 |-> validators, overlapped |-> FALSE]]
    /\ UNCHANGED <<validators, CurrentErrorFormatFunc, call, registered, listed, tag, parsed, arg, outcome, tv, pkg>>

\* A plausible slip: a call works on a snapshot of the registry taken at
\* its entry.
GoStepSnapshot(p) ==
    /\ ~inflight.fatal
    /\ inflight.calls[p].c.pc \in {"fields", "tags", "each"}
    /\ inflight' = [inflight EXCEPT !.calls[p].c =
                        Step(@, inflight.calls[p].vs0, CurrentErrorFormatFunc)]
    /\ UNCHANGED <<validators, CurrentErrorFormatFunc, call, registered, listed, tag, parsed, arg, outcome, tv, pkg>>

\* The call of goroutine p goes one step on: the next field, segment or
\* inner segment, with the registry as it is now.
GoStep(p) ==
    /\ ~inflight.fatal
    /\ inflight.calls[p].c.pc \in {"fields", "tags", "each"}
    /\ inflight' = [inflight EXCEPT !.calls[p].c = Step(@, validators, CurrentErrorFormatFunc)]
    /\ UNCHANGED <<validators, CurrentErrorFormatFunc, call, registered, listed, tag, parsed, arg, outcome, tv, pkg>>

\* Goroutine p has its result.
GoReturn(p) ==
    /\ ~inflight.fatal
    /\ inflight.calls[p].c.pc = "done"
    /\ inflight' = [inflight EXCEPT !.calls[p] = NoCall]
    /\ UNCHANGED <<validators, CurrentErrorFormatFunc, call, registered, listed, tag, parsed, arg, outcome, tv, pkg>>

\* v.RegisterTag(name, fn), by yet another goroutine, whatever the calls in
\* flight: the map is written without a lock.
GoRegisterTag(name, fn) ==
    /\ ~inflight.fatal
    /\ validators' = RegisterTagMap(validators, name, fn)
    /\ inflight' = [inflight EXCEPT !.calls =
                        [p \in Procs |-> [@[p] EXCEPT !.overlapped = @ \/ Overlaps(inflight.calls[p].c)]]]
    /\ UNCHANGED <<CurrentErrorFormatFunc, call, registered, listed, tag, parsed, arg, outcome, tv, pkg>>

\* The write of a RegisterTag meets the read of a call in flight and the Go
\* runtime ends the process (concurrent map read and map write).
GoMapRace ==
    /\ ~inflight.fatal
    /\ \E p \in Procs : inflight.calls[p].c.pc \in {"fields", "tags", "each"}
    /\ inflight' = [inflight EXCEPT !.fatal = TRUE]
    /\ UNCHANGED <<validators, CurrentErrorFormatFunc, call, registered, listed, tag, parsed, arg, outcome, tv, pkg>>

NextConcurrent ==
    \/ \E p \in Procs, s \in ConcurrentInputs : GoValidate(p, s)
    \/ \E p \in Procs : GoStep(p)
    \/ \E p \in Procs : GoReturn(p)
    \/ \E r \in ConcurrentRegistrations : GoRegisterTag(r[1], r[2])
    \/ GoMapRace

SpecConcurrent == InitConcurrent /\ [][NextConcurrent]_vars

----------------------------------------------------------------------------
(* What the claims speak of *)

\* p comes before q: by field, then top-level segment, then element, then
\* inner segment.
PosLess(p, q) ==
    \E j \in 1..4 : p[j] < q[j] /\ \A h \in 1..(j - 1) : p[h] = q[h]

TracePositions(c) == {c.trace[j].pos : j \in DOMAIN c.trace}

\* The name and the param of a segment.
SegmentKey(seg) == TrimSpace(SplitN2(TrimSpace(seg))[1])
SegmentHasParam(seg) == Len(SplitN2(TrimSpace(seg))) = 2
SegmentParam(seg) ==
    IF SegmentHasParam(seg) THEN TrimSpace(SplitN2(TrimSpace(seg))[2]) ELSE <<>>
IsBlank(seg) == TrimSpace(seg) = <<>>

\* Braces opened minus braces closed in s.
RECURSIVE BraceDepth(_)
BraceDepth(s) ==
    IF s = <<>> THEN 0
    ELSE BraceDepth(SubSeq(s, 1, Len(s) - 1))
           + (IF s[Len(s)] = "{" THEN 1 ELSE IF s[Len(s)] = "}" THEN -1 ELSE 0)

IsSequence(v) == v.kind \in {"slice", "array"}

\* The places of the invocations of top-level segment t of field i, an
\* each-clause having one place for each element and inner invocation.
SegmentPositions(fld, i, t, seg) ==
    IF IsBlank(seg) THEN {}
    ELSE IF SegmentKey(seg) # eachTag THEN {<<i, t, 0, 0>>}
    ELSE IF ~IsSequence(fld.val) \/ SegmentParam(seg) = <<>> THEN {}
    ELSE LET r == splitTopLevelByComma(StripBraces(SegmentParam(seg)))
         IN  IF r.err # NoError THEN {}
             ELSE {<<i, t, e, k>> : e \in 1..LenOf(fld.val),
                                    k \in {h \in DOMAIN r.parts : ~IsBlank(r.parts[h])}}

\* The places of all invocations of a struct.
ContractPositions(rv) ==
    UNION {LET fld == rv.fields[i]
               r == splitTopLevelByComma(fld.tag)
           IN  IF r.err # NoError THEN {}
               ELSE UNION {SegmentPositions(fld, i, t, r.parts[t]) : t \in DOMAIN r.parts}
           : i \in DOMAIN rv.fields}

Validating == call.pc \in {"fields", "tags", "each"} \/ (call.pc = "done" /\ call.rv # Invalid)

\* C1, on every state: the dispatches made so far are in contract order
\* (field, top-level segment, element, inner segment), none that comes before
\* a made one was left out, every one is made when Validate returns nil, and a
\* dispatch whose callback failed is the last one, ends the call and is its
\* result, wrapped by the formatter.
C1_FirstFailureInOrder ==
    Validating =>
        /\ \A a, b \in DOMAIN call.trace : a < b => PosLess(call.trace[a].pos, call.trace[b].pos)
        /\ \A p \in ContractPositions(call.rv), q \in TracePositions(call) :
                PosLess(p, q) => p \in TracePositions(call)
        /\ TracePositions(call) \subseteq ContractPositions(call.rv)
        /\ call.ret = ReturnNil => ContractPositions(call.rv) \subseteq TracePositions(call)
        /\ \A j \in DOMAIN call.trace :
                LET d == call.trace[j]
                    fld == call.rv.fields[d.pos[1]]
                    shown == IF d.pos[3] = 0 THEN fld.val ELSE fld.val.elems[d.pos[3]]
                IN  /\ d.res.kind = "err" =>
                        /\ j = Len(call.trace)
                        /\ call.pc = "done"
                        /\ call.ret = FormatError(CurrentErrorFormatFunc, fld, shown, d.res)
                    /\ d.res.kind = "panic" =>
                        j = Len(call.trace) /\ call.pc = "done" /\ call.ret = Panicked
        /\ call.ret # Running <=> call.pc = "done"

\* C1, on every step: once Validate has its result nothing more is
\* dispatched; the call only returns.
C1_NothingAfterReturn == [][call.pc = "done" => call' = Idle]_vars

\* C1: Validate visits fields, segments, elements and inner invocations in
\* order; the first failing step gives the result and is the last step.
C1_OrderedFirstFailure == []C1_FirstFailureInOrder /\ C1_NothingAfterReturn

\* each={min=1} on ["", "b"]: the call fails on element 1, after one dispatch.
C1_Witness ==
    /\ call.pc = "done"
    /\ call.rv = Struct(<<Field(1, <<"each", "=", "{", "min", "=", "1", "}">>,
                                Slice(<<Str(0), Str(1)>>))>>)
    /\ call.ret = FormatError(CurrentErrorFormatFunc, call.rv.fields[1], Str(0),
                              Err("should have length at least", 1))
    /\ TracePositions(call) = {<<1, 1, 1, 1>>}

\* An each-clause's param with the inner invocations of unregistered names
\* removed.
WithoutUnregisteredInner(param, vs) ==
    LET r == splitTopLevelByComma(StripBraces(param))
    IN  IF r.err # NoError THEN param
        ELSE <<"{">>
               \o JoinComma(SelectSeq(r.parts,
                                      LAMBDA x : IsBlank(x) \/ SegmentKey(x) \in DOMAIN vs))
               \o <<"}">>

\* A tag with the invocations of unregistered names removed, at top level
\* and inside its each-clauses; a tag with a brace error is left as it is.
WithoutUnregistered(tg, vs) ==
    LET r == splitTopLevelByComma(tg)
        kept == SelectSeq(r.parts,
                          LAMBDA x : IsBlank(x) \/ SegmentKey(x) = eachTag
                                       \/ SegmentKey(x) \in DOMAIN vs)
    IN  IF r.err # NoError THEN tg
        ELSE JoinComma([j \in DOMAIN kept |->
                 IF SegmentKey(kept[j]) = eachTag /\ SegmentParam(kept[j]) # <<>>
                 THEN eachTag \o <<"=">> \o WithoutUnregisteredInner(SegmentParam(kept[j]), vs)
                 ELSE kept[j]])

\* The input of Validate with every tag so reduced.
RECURSIVE ReducedInput(_, _)
ReducedInput(s, vs) ==
    IF s.kind = "struct"
    THEN Struct([j \in DOMAIN s.fields |->
                    [s.fields[j] EXCEPT !.tag = WithoutUnregistered(@, vs)]])
    ELSE IF s.kind = "ptr" /\ ~s.isnil THEN PtrTo(ReducedInput(s.elem, vs))
    ELSE s

\* C2: an invocation of an unregistered name is skipped, at top level and
\* inside an each-clause: Validate returns what it returns for the same
\* input with those invocations removed from the tags.
C2_UnregisteredSkipped ==
    call.pc = "done" =>
        call.ret = ValidateAlone(validators, CurrentErrorFormatFunc,
                                 ReducedInput(call.s, validators)).ret

\* each:{} on a slice: one dispatch, of the unregistered name each:{}, and
\* Validate returns nil, as for the field without annotation.
C2_Witness ==
    /\ call.pc = "done"
    /\ call.ret = ReturnNil
    /\ Len(call.rv.fields) = 1
    /\ call.rv.fields[1].tag = <<"each", ":", "{", "}">>
    /\ call.rv.fields[1].val = Slice(<<Str(0), Str(1)>>)
    /\ Len(call.trace) = 1 /\ call.trace[1].fn = "" /\ call.trace[1].key = <<"each", ":", "{", "}">>
    /\ ReducedInput(call.s, validators).fields[1].tag = <<>>

\* The callback NewValidator registers under a built-in name.
BuiltinOf(n) ==
    CASE n = minTag -> "builtinMin"
      [] n = maxTag -> "builtinMax"
      [] n = requiredTag -> "builtinRequired"

\* The callback a name stands for after the registrations made so far.
LatestCallback(n) == IF n \in DOMAIN registered THEN registered[n] ELSE BuiltinOf(n)

\* C3: the registry holds min, max, required and every name ever registered,
\* each with the callback of its latest registration, which is the one
\* Validate dispatches to; RegisterTag can always be called; ListValidators
\* returns every held name exactly once.
C3_RegistryLastWriterWins ==
    /\ DOMAIN validators = {minTag, maxTag, requiredTag} \cup DOMAIN registered
    /\ \A n \in DOMAIN validators : validators[n] = LatestCallback(n)
    /\ \A j \in DOMAIN call.trace :
          call.trace[j].fn = IF call.trace[j].key \in DOMAIN validators
                             THEN LatestCallback(call.trace[j].key) ELSE ""
    /\ call.pc = "idle" =>
          \A name \in RegisteredNames, fn \in CustomCallbacks : ENABLED RegisterTag(name, fn)
    /\ listed # <<>> =>
          /\ Len(listed) = Cardinality(DOMAIN validators)
          /\ \A n \in DOMAIN validators : Cardinality({j \in DOMAIN listed : listed[j] = n}) = 1

\* min was registered again with a callback that rejects everything: min=1
\* on "b", which the built-in accepts, fails with the error of that callback.
C3_Witness ==
    /\ call.pc = "done"
    /\ call.rv = Struct(<<Field(1, <<"min", "=", "1">>, Str(1))>>)
    /\ validators[minTag] = "rejectAll"
    /\ <<"cust">> \in DOMAIN validators
    /\ call.ret = FormatError(CurrentErrorFormatFunc, call.rv.fields[1], Str(1),
                              Err("rejected", 0))

\* A struct, or a non-nil pointer to a struct.
IsStructOrPointerToStruct(s) ==
    \/ s.kind = "struct"
    \/ s.kind = "ptr" /\ ~s.isnil /\ s.elem.kind = "struct"

\* C4: for any other input Validate returns the unsupported-input error at
\* once: no field is visited, nothing is dispatched and the error does not
\* come from the formatter.
C4_UnsupportedInput ==
    (call.pc # "idle" /\ ~IsStructOrPointerToStruct(call.s)) =>
        /\ call.pc = "done"
        /\ call.ret = PlainError("can only validate structs")
        /\ call.ret.formatter \notin ErrorFormatFuncs
        /\ call.i = 0 /\ call.rv = Invalid
        /\ call.trace = <<>>

\* A pointer to a pointer to a struct whose only field would fail min=1.
C4_Witness ==
    /\ call.pc = "done"
    /\ call.s = PtrTo(PtrTo(Struct(<<Field(1, <<"min", "=", "1">>, Str(0))>>)))
    /\ call.ret = PlainError("can only validate structs")

\* The call is about to process a top-level each on a field that is neither
\* a slice nor an array.
AtEachOnNonSequence ==
    /\ call.pc = "tags"
    /\ call.t <= Len(call.tags)
    /\ ~IsBlank(call.tags[call.t])
    /\ SegmentKey(call.tags[call.t]) = eachTag
    /\ ~IsSequence(call.rv.fields[call.i].val)

\* C5: from there the next step ends the call with the type-mismatch error,
\* whatever the param of each: nothing is dispatched by that step, and
\* nothing after it, the call only returns.
C5_EachOnNonSequenceFails ==
    /\ [][AtEachOnNonSequence =>
              call' = Done(call, FormatError(CurrentErrorFormatFunc,
                                             call.rv.fields[call.i],
                                             call.rv.fields[call.i].val,
                                             Err("each can be used only with slice or array", 0)))]_vars
    /\ [][(call.pc = "done" /\ call.ret.kind = "error") => call'.trace = <<>>]_vars

\* each without a param on a map: the type-mismatch error, not the panic of
\* the missing param, and no dispatch.
C5_Witness ==
    /\ call.pc = "done"
    /\ call.rv = Struct(<<Field(1, <<"each">>, MapV(1))>>)
    /\ call.ret.kind = "error"
    /\ call.ret.err = Err("each can be used only with slice or array", 0)
    /\ call.trace = <<>>

\* C7: when the call is at a field whose tag ends with more braces opened
\* than closed, it ends there with the unclosed-braces error, whatever the
\* field holds, and nothing is dispatched for that field.
C7_UnclosedBraces ==
    (Validating /\ call.i \in DOMAIN call.rv.fields
                /\ BraceDepth(call.rv.fields[call.i].tag) > 0) =>
        LET fld == call.rv.fields[call.i]
        IN  /\ call.pc \in {"fields", "done"}
            /\ call.pc = "done" =>
                  call.ret = FormatError(CurrentErrorFormatFunc, fld, fld.val,
                                         Err(UnclosedBraces, 0))
            /\ \A j \in DOMAIN call.trace : call.trace[j].pos[1] # call.i

\* min=1,each={min=1 on "": min=1 would reject the value, yet the result is
\* the unclosed-braces error and nothing was dispatched.
C7_Witness ==
    /\ call.pc = "done"
    /\ call.rv = Struct(<<Field(1, <<"min", "=", "1", ",", "each", "=", "{", "min", "=", "1">>,
                                Str(0))>>)
    /\ call.ret.kind = "error"
    /\ call.ret.err = Err(UnclosedBraces, 0)
    /\ call.trace = <<>>

\* The brace depth the scan has when it reaches s[i]: the braces opened minus
\* the braces closed before it.
DepthBefore(s, i) == BraceDepth(SubSeq(s, 1, i - 1))

\* The commas of s the scan reaches at depth 0.
TopLevelCommas(s) == {i \in DOMAIN s : s[i] = "," /\ DepthBefore(s, i) = 0}

\* Where the segments parts, laid end to end with one character between
\* neighbours, leave that character.
Separators(parts) ==
    {Len(JoinComma(SubSeq(parts, 1, k))) + 1 : k \in 1..(Len(parts) - 1)}

\* Some prefix of s closes more braces than it opens.
DepthGoesNegative(s) == \E i \in 0..Len(s) : BraceDepth(SubSeq(s, 1, i)) < 0

C8_NegativeDepthIsUnopened ==
    (parsed.split # NotRun /\ DepthGoesNegative(tag)) =>
        /\ parsed.split.err = UnopenedBraces
        /\ parsed.split.parts = <<>>

\* C9: the runtime engine and the static analyzer, reading the same tag,
\* agree on the brace error (or its absence) and derive the same invocations,
\* name and param, in the same order, those inside each-clauses included.
C9_SameGrammar ==
    (parsed.runtime # NotRun /\ parsed.static # NotRun) =>
        /\ parsed.runtime.err = parsed.static.err
        /\ parsed.runtime.invs = parsed.static.invs

\* The number min and max compare with: the length of a string, slice, array
\* or map, the value of an integer (an unsigned one above every int when it
\* is kept as an offset from 2^64).
HasMeasure(rv) == rv.kind \in {"string", "slice", "array", "map", "int", "uint"}

\* m >= n for the measure m of rv.
MeasureAtLeast(rv, n) ==
    CASE rv.kind \in {"string", "slice", "array", "map"} -> LenOf(rv) >= n
      [] rv.kind = "int" -> rv.n >= n
      [] rv.kind = "uint" -> rv.big \/ rv.off >= n

\* m <= n for the measure m of rv.
MeasureAtMost(rv, n) ==
    CASE rv.kind \in {"string", "slice", "array", "map"} -> LenOf(rv) <= n
      [] rv.kind = "int" -> rv.n <= n
      [] rv.kind = "uint" -> ~rv.big /\ rv.off <= n

\* The value min and max look at: the value itself, or what a pointer that
\* is not nil points to.
Measured(rv) == IF rv.kind = "ptr" /\ ~rv.isnil THEN rv.elem ELSE rv

\* C10: with an integer param N, negative or not, min=N passes exactly when
\* the measure of the value is at least N and max=N exactly when it is at
\* most N; a value without a measure is refused as not applicable.
C10_MinMaxCompareMeasure ==
    LET n == Atoi(arg.param).n
        rv == Measured(arg.val)
    IN  (Atoi(arg.param).ok /\ ~(arg.val.kind = "ptr" /\ arg.val.isnil)) =>
            /\ outcome.min # NotRun =>
                  IF HasMeasure(rv) THEN (outcome.min = Ok) <=> MeasureAtLeast(rv, n)
                  ELSE outcome.min = Err("min is not applicable to type", 0)
            /\ outcome.max # NotRun =>
                  IF HasMeasure(rv) THEN (outcome.max = Ok) <=> MeasureAtMost(rv, n)
                  ELSE outcome.max = Err("max is not applicable to type", 0)

\* The integer params below n and the integer params above n.
ParamsBelow(n) == {p \in BuiltinParams : Atoi(p).ok /\ Atoi(p).n < n}
ParamsAbove(n) == {p \in BuiltinParams : Atoi(p).ok /\ Atoi(p).n > n}

\* C11: for a value of a supported type, when min=N passes so does min=N1
\* for every integer N1 below N, and when max=N passes so does max=N2 for
\* every integer N2 above N.
C11_MinMaxMonotonic ==
    (Atoi(arg.param).ok /\ HasMeasure(Measured(arg.val))) =>
        /\ outcome.min = Ok =>
              \A p \in ParamsBelow(Atoi(arg.param).n) :
                  builtinMin(ValueOf(arg.val, arg.name, p)) = Ok
        /\ outcome.max = Ok =>
              \A p \in ParamsAbove(Atoi(arg.param).n) :
                  builtinMax(ValueOf(arg.val, arg.name, p)) = Ok

\* C12: on a nil pointer min=N passes exactly when 0 >= N and max=N
\* exactly when 0 <= N.
C12_NilPointerIsLengthZero ==
    (Atoi(arg.param).ok /\ arg.val = NilPtr) =>
        /\ outcome.min # NotRun => ((outcome.min = Ok) <=> (0 >= Atoi(arg.param).n))
        /\ outcome.max # NotRun => ((outcome.max = Ok) <=> (0 <= Atoi(arg.param).n))

\* The zero value of the type of rv.
RECURSIVE ZeroOf(_)
ZeroOf(rv) ==
    CASE rv.kind = "string" -> Str(0)
      [] rv.kind = "int" -> IntV(0)
      [] rv.kind = "uint" -> UintV(FALSE, 0)
      [] rv.kind = "float" -> FloatV(0)
      [] rv.kind = "bool" -> BoolV(FALSE)
      [] rv.kind = "slice" -> NilSlice
      [] rv.kind = "map" -> NilMap
      [] rv.kind = "ptr" -> NilPtr
      [] rv.kind = "array" -> Array([j \in DOMAIN rv.elems |-> ZeroOf(rv.elems[j])])
      [] rv.kind = "struct" ->
            Struct([j \in DOMAIN rv.fields |->
                       Field(rv.fields[j].name, rv.fields[j].tag, ZeroOf(rv.fields[j].val))])

SegmentAt(rv, pos) ==
    LET top == splitTopLevelByComma(rv.fields[pos[1]].tag).parts[pos[2]]
    IN  IF pos[3] = 0 THEN top
        ELSE splitTopLevelByComma(StripBraces(SegmentParam(top))).parts[pos[4]]

\* The error min and max return for a param that is no integer.
BadParam(fn) ==
    IF fn = "builtinMin" THEN Err("min expects integer param", 0)
    ELSE Err("max expects integer param", 0)

\* C14: a min or max invocation written with '=' and a param that is no
\* integer, the empty one included, makes the built-in return the
\* bad-parameter error, which Validate returns as its error; the built-in
\* panics for a missing param only when the invocation has no '='.
C14_EmptyParamIsBadParam ==
    Validating =>
        \A j \in DOMAIN call.trace :
            LET d == call.trace[j]
                seg == SegmentAt(call.rv, d.pos)
            IN  d.fn \in {"builtinMin", "builtinMax"} =>
                    /\ (SegmentHasParam(seg) /\ ~Atoi(SegmentParam(seg)).ok) =>
                          /\ d.res = BadParam(d.fn)
                          /\ call.ret.kind = "error" /\ call.ret.err = BadParam(d.fn)
                    /\ d.res.kind = "panic" => ~SegmentHasParam(seg)

\* C15, on every state: when a callback has failed, the result of Validate
\* is what the current formatter makes of the field, the value shown (the
\* field's, or the element's inside an each-clause) and the raw error of the
\* callback, and that failing dispatch is the only one of the call.
C15_ResultIsFormatted ==
    Validating =>
        \A j \in DOMAIN call.trace :
            LET d == call.trace[j]
                fld == call.rv.fields[d.pos[1]]
            IN  d.res.kind = "err" =>
                    /\ call.ret.kind = "error"
                    /\ call.ret.formatter = CurrentErrorFormatFunc
                    /\ call.ret.field = fld.name
                    /\ call.ret.value = (IF d.pos[3] = 0 THEN fld.val ELSE fld.val.elems[d.pos[3]])
                    /\ call.ret.err = d.res
                    /\ \A h \in DOMAIN call.trace : call.trace[h].res.kind = "err" => h = j

\* C15, on every step: the step in which a callback fails takes the
\* formatter that is current in it, and the formatter is not swapped while a
\* result it made is still to be returned.
C15_FormatterOfTheMoment ==
    [][/\ (call.ret = Running /\ call'.ret.kind = "error" /\ call'.ret.formatter # "") =>
            (call'.ret.formatter = CurrentErrorFormatFunc
               /\ CurrentErrorFormatFunc' = CurrentErrorFormatFunc)
       /\ CurrentErrorFormatFunc' # CurrentErrorFormatFunc => call.ret = Running]_vars

\* C15: a failure is wrapped once, by the formatter current when it happens.
C15_CurrentFormatterWraps == []C15_ResultIsFormatted /\ C15_FormatterOfTheMoment

\* The formatter was swapped and min=1 then failed on "": the result is the
\* new formatter's.
C15_Witness ==
    /\ CurrentErrorFormatFunc = "customErrorFormat"
    /\ call.pc = "done"
    /\ call.rv = Struct(<<Field(1, <<"min", "=", "1">>, Str(0))>>)
    /\ call.ret = FormatError("customErrorFormat", Field(1, <<"min", "=", "1">>, Str(0)), Str(0),
                              Err("should have length at least", 1))

\* The invocations a brace-balanced tag stands for, in order: its top-level
\* segments that are not blank, an each-clause replaced by the invocations
\* of its body, at every depth.
RECURSIVE LeafSegments(_)
LeafSegments(tg) ==
    LET r == splitTopLevelByComma(tg)
    IN  IF r.err # NoError THEN <<>>
        ELSE Flatten([k \in DOMAIN r.parts |->
                 LET seg == TrimSpace(r.parts[k])
                 IN  IF seg = <<>> THEN <<>>
                     ELSE IF SegmentKey(seg) # eachTag THEN <<seg>>
                     ELSE IF SegmentHasParam(seg) /\ StripBraces(SegmentParam(seg)) # <<>>
                          THEN LeafSegments(StripBraces(SegmentParam(seg)))
                          ELSE <<>>])

\* The declared fields of the package: file, declaration, index of the
\* field.
DeclaredFields ==
    UNION {UNION {{<<f, d, j>> : j \in DOMAIN pkg.files[f].structs[d]} :
                     d \in DOMAIN pkg.files[f].structs} :
           f \in DOMAIN pkg.files}

\* The declaration of the field at place x.
DeclAt(x) == pkg.files[x[1]].structs[x[2]][x[3]]

\* The messages of the errors recorded for the field at place x, in order.
MessagesAt(x) ==
    LET at == SelectSeq(tv.errors, LAMBDA e :
                  e.file = x[1] /\ e.decl = x[2] /\ e.field = DeclAt(x).name)
    IN  [k \in DOMAIN at |-> at[k].msg]

\* The names registered with a literal anywhere in the package.
LiteralNames ==
    UNION {{pkg.files[f].calls[j].name :
               j \in {h \in DOMAIN pkg.files[f].calls : pkg.files[f].calls[h].literal}} :
           f \in DOMAIN pkg.files}

\* The run is over and the package was parsed.
Reported == tv.pc = "done" /\ ~pkg.err

\* What a tag yields when each of its invocations is checked alone: the
\* brace error, or the messages of its invocations one after the other.
CheckedAlone(custom, tg) ==
    IF splitTopLevelByComma(tg).err # NoError
    THEN <<Message(splitTopLevelByComma(tg).err, tg)>>
    ELSE Flatten([k \in DOMAIN LeafSegments(tg) |->
                     validateLakeryTag(custom, LeafSegments(tg)[k]).errs])

\* C16, on every state: ValidatePackage has no result before both passes
\* are through every file; when it has one, every annotated field of every
\* declared struct has the messages of its own tag, each invocation of the
\* tag checked alone, whatever the other fields and invocations yielded,
\* no other error is recorded, and the result is an error exactly when
\* some error was recorded.
C16_AllDiagnosticsCollected ==
    /\ (tv.pc # "done") <=> (tv.ret = Running)
    /\ Reported =>
          /\ tv.found = DOMAIN pkg.files /\ tv.validated = DOMAIN pkg.files
          /\ \A x \in DeclaredFields :
                MessagesAt(x) = (IF DeclAt(x).tag = <<>> THEN <<>>
                                 ELSE CheckedAlone(tv.customValidators, DeclAt(x).tag))
          /\ \A k \in DOMAIN tv.errors :
                \E x \in DeclaredFields :
                    /\ tv.errors[k].file = x[1] /\ tv.errors[k].decl = x[2]
                    /\ tv.errors[k].field = DeclAt(x).name /\ tv.errors[k].tag = DeclAt(x).tag
          /\ (tv.ret = ReturnNil) <=> (tv.errors = <<>>)
          /\ tv.errors # <<>> => tv.ret = FoundErrors(Len(tv.errors))

\* A run over two files: min=x then "unk, min=x,cust=1," in a.go, unk and
\* cust in b.go; nothing registered: six errors, three of them for one tag.
C16_Witness ==
    /\ Reported
    /\ DOMAIN pkg.files = {"a.go", "b.go"}
    /\ tv.ret = FoundErrors(6)
    /\ \E x \in DeclaredFields :
          MessagesAt(x) = << Message("unknown validator", <<"unk">>),
                             Message("expects integer parameter", minTag),
                             Message("unknown validator", <<"cust">>) >>

\* The errors of the package when every literal name is known from the
\* start, as a set: they depend on the package alone.
ExpectedErrors ==
    UNION {LET errs == IF DeclAt(x).tag = <<>> THEN <<>>
                       ELSE validateLakeryTag(LiteralNames, DeclAt(x).tag).errs
           IN  {TagError(x[1], x[2], DeclAt(x).name, DeclAt(x).tag, errs[k]) : k \in DOMAIN errs}
           : x \in DeclaredFields}

\* C17: no file is validated before every file has been through the
\* discovery pass, so every name registered with a literal anywhere in the
\* package is known to the validation of every tag, and the errors of the
\* run, as a set, are those of the package, whatever the order in which the
\* files were met.
C17_DiscoveryBeforeValidation ==
    /\ (tv.pc = "scan" /\ (tv.validated # {} \/ tv.errors # <<>>)) =>
          /\ tv.found = DOMAIN pkg.files
          /\ tv.customValidators = LiteralNames
    /\ (tv.pc = "scan" /\ tv.found = DOMAIN pkg.files) =>
          {tv.errors[k] : k \in DOMAIN tv.errors} \subseteq ExpectedErrors
    /\ Reported =>
          /\ tv.customValidators = LiteralNames
          /\ {tv.errors[k] : k \in DOMAIN tv.errors} = ExpectedErrors

\* a.go declares a field tagged cust, b.go registers cust: a.go has been
\* validated, b.go not yet, and no error is recorded.
C17_Witness ==
    /\ tv.pc = "scan"
    /\ DOMAIN pkg.files = {"a.go", "b.go"}
    /\ pkg.files["a.go"] = File(<<>>, << <<DeclField(1, <<"cust">>)>> >>)
    /\ pkg.files["b.go"] = File(<<RegisterCall(TRUE, <<"cust">>)>>, <<>>)
    /\ tv.validated = {"a.go"}
    /\ tv.errors = <<>>

\* How many of the messages msgs satisfy Test.
CountOf(msgs, Test(_)) == Len(SelectSeq(msgs, Test))

\* The invocations of the tag of the field at place x.
InvocationsAt(x) == LeafSegments(DeclAt(x).tag)

\* C18: in a brace-balanced tag every invocation named required that is
\* written with '=', whatever follows it (nothing, too), gets the error
\* that required accepts no parameters, and no other invocation gets it.
C18_RequiredTakesNoParam ==
    Reported =>
        \A x \in DeclaredFields :
            CountOf(MessagesAt(x), LAMBDA m :
                        m.msg = "required validator does not accept parameters")
              = CountOf(InvocationsAt(x), LAMBDA seg :
                            SegmentKey(seg) = requiredTag /\ SegmentHasParam(seg))

\* C19: in a brace-balanced tag every invocation named min or max gets the
\* expects-integer-parameter error unless it carries a param that parses as
\* an integer, and no other invocation gets it.
C19_MinMaxNeedInteger ==
    Reported =>
        \A x \in DeclaredFields :
            CountOf(MessagesAt(x), LAMBDA m : m.msg = "expects integer parameter")
              = CountOf(InvocationsAt(x), LAMBDA seg :
                            /\ SegmentKey(seg) \in {minTag, maxTag}
                            /\ ~(SegmentHasParam(seg) /\ Atoi(SegmentParam(seg)).ok))

\* The invocation seg has a name that starts with each: and is not known.
IsColonEach(seg) ==
    /\ HasPrefix(SegmentKey(seg), <<"each", ":">>)
    /\ SegmentKey(seg) \notin builtinValidators \cup LiteralNames

\* C20: in a brace-balanced tag every invocation whose name starts with
\* each: and is not known gets the did-you-mean error that suggests each=
\* followed by what comes after the colon, and not the unknown-validator
\* error; no other invocation gets the did-you-mean error.
C20_ColonEachSuggestsEquals ==
    Reported =>
        \A x \in DeclaredFields :
            /\ CountOf(MessagesAt(x), LAMBDA m : m.msg = "did you mean each=")
                 = CountOf(InvocationsAt(x), IsColonEach)
            /\ \A k \in DOMAIN InvocationsAt(x) :
                  IsColonEach(InvocationsAt(x)[k]) =>
                      /\ \E h \in DOMAIN MessagesAt(x) :
                            MessagesAt(x)[h] = Message("did you mean each=",
                                                       From(SegmentKey(InvocationsAt(x)[k]), 3))
                      /\ \A h \in DOMAIN MessagesAt(x) :
                            MessagesAt(x)[h] # Message("unknown validator",
                                                       SegmentKey(InvocationsAt(x)[k]))

\* A field tagged each:{}: its one error suggests each={}.
C20_Witness ==
    /\ Reported
    /\ DOMAIN pkg.files = {"a.go"}
    /\ pkg.files["a.go"].structs = << <<DeclField(1, <<"each", ":", "{", "}">>)>> >>
    /\ [k \in DOMAIN tv.errors |-> tv.errors[k].msg]
         = <<Message("did you mean each=", <<"{", "}">>)>>

\* What Validate, with the built-ins alone, returns for a struct of one
\* field with the tag tg and the value v.
ResultOf(tg, v) ==
    ValidateAlone(NewValidator, "defaultErrorFormat", Struct(<<Field(1, tg, v)>>)).ret

\* The invocation seg has a name that must be reported as unknown: dive, or
\* a name that is no validator with a behaviour (min, max, required, each)
\* and is not registered with a literal; a name that starts with each: has
\* its own message.
MustBeUnknown(seg) ==
    /\ SegmentKey(seg) # <<>>
    /\ SegmentKey(seg) \notin {minTag, maxTag, requiredTag, eachTag} \cup LiteralNames
    /\ ~HasPrefix(SegmentKey(seg), <<"each", ":">>)

\* C21: a dive invocation changes nothing at runtime (a tag with dive put
\* before it gives the result of the tag itself), and the analyzer reports
\* unknown validator for every invocation named dive and for every other
\* name that is neither built in nor registered with a literal.
C21_DiveIsNoOpAndUnknown ==
    Reported =>
        \A x \in DeclaredFields :
            /\ \A v \in {Str(0), Slice(<<Str(1)>>)} :
                  DeclAt(x).tag # <<>> =>
                      ResultOf(<<"dive", ",">> \o DeclAt(x).tag, v) = ResultOf(DeclAt(x).tag, v)
            /\ CountOf(MessagesAt(x), LAMBDA m : m.msg = "unknown validator")
                 = CountOf(InvocationsAt(x), MustBeUnknown)

\* C22: whatever ValidatePackage calls the TagValidator has been through,
\* when a call returns its errors are those of the package of that call
\* alone, and it fails exactly when that package has an error (or does not
\* parse).
C22_NoStateBetweenCalls ==
    /\ (tv.pc = "done" /\ pkg.err) => tv.ret = ParseError
    /\ Reported =>
          /\ {tv.errors[k] : k \in DOMAIN tv.errors} = ExpectedErrors
          /\ tv.ret = (IF ExpectedErrors = {} THEN ReturnNil
                       ELSE FoundErrors(Cardinality(ExpectedErrors)))

\* The calls of the goroutines, when goroutines share the Validator.
InFlightCalls == inflight.calls

\* C23: Validate looks the name up in the registry of the moment at each
\* dispatch (no lock, no snapshot), so a RegisterTag between two dispatches
\* of a call is seen by the later one; and a call that no RegisterTag
\* overlaps, whatever other Validate calls run beside it, sees the registry
\* it began with and ends exactly as it ends when run alone.
C23_NoIsolationFromRegisterTag ==
    /\ [](\A p \in Procs :
            LET g == InFlightCalls[p]
            IN  ~g.overlapped =>
                   /\ Overlaps(g.c) => validators = g.vs0
                   /\ g.c.pc = "done" =>
                          g.c = ValidateAlone(g.vs0, CurrentErrorFormatFunc, g.c.s))
    /\ [][\A p \in Procs :
            LET before == InFlightCalls[p].c.trace
                after == InFlightCalls'[p].c.trace
            IN  (InFlightCalls[p].c.pc # "idle" /\ Len(after) > Len(before)) =>
                   after[Len(after)].fn = (IF after[Len(after)].key \in DOMAIN validators
                                           THEN validators[after[Len(after)].key]
                                           ELSE "")]_vars

\* One call has returned after dispatching min twice, first to builtinMin
\* and, a RegisterTag later, to the callback registered meanwhile, while
\* the other goroutine has a call in flight too.
C23_Witness ==
    /\ inflight # <<>>
    /\ \E p \in Procs :
          LET g == InFlightCalls[p]
          IN  /\ g.c.pc = "done"
              /\ g.overlapped
              /\ Len(g.c.trace) = 2
              /\ g.c.trace[1].key = minTag /\ g.c.trace[2].key = minTag
              /\ g.c.trace[1].fn = "builtinMin" /\ g.c.trace[2].fn = "rejectAll"
              /\ g.c.ret # ValidateAlone(g.vs0, CurrentErrorFormatFunc, g.c.s).ret
              /\ \E q \in Procs \ {p} : Overlaps(InFlightCalls[q].c)

\* C24: a tag for which the static analyzer emits no diagnostic never makes
\* Validate, with the built-ins alone, abort: on a string field and on a
\* slice field it ends by returning nil or an error.
C24_AcceptedTagsAreSafe ==
    (parsed.static # NotRun /\ parsed.static.diagnostics = 0) =>
        \A v \in {Str(1), Slice(<<Str(1)>>)} : ResultOf(tag, v).kind \in {"nil", "error"}

====
